---- MODULE Spec2Model ----
\* Relay configuration of the zai front-end: the persisted AppConfig
\* (AppProvider), the relay selector widget (RelaySelector) and the relay
\* pool adapter (NostrProvider), as one state machine.
EXTENDS Integers, Sequences, FiniteSets, TLC

VARIABLES
    storage,     \* the item under the storage key (localStorage)
    config,      \* AppProvider's config state, as last rendered
    fresh,       \* TRUE from a load until the first updateConfig call
    open,        \* RelaySelector: popover open
    inputValue,  \* RelaySelector: text of the CommandInput
    relayUrls,   \* NostrProvider: relayUrls.current
    effect,      \* NostrProvider: the useEffect scheduled by the last commit
    cache,       \* query cache: whether it holds data, and the urls it came from
    appended,    \* number of relay entries appended so far (model bound)
    prefersDark, \* the host: matchMedia('(prefers-color-scheme: dark)').matches
    classList,   \* the mode markers on document.documentElement
    themeEffect, \* useApplyTheme: the two effects scheduled by the last commit
    listening,   \* useApplyTheme: handleChange is subscribed to the media query
    pool,        \* NostrProvider: NPool instances constructed in this page
    other,       \* another tab on the same storage key: its config state
    writer,      \* the tab that wrote the stored item last (0: none yet)
    call         \* a call of normalizeRelayUrl: its argument and its result so far

\* the state of the relay configuration, the selector and the pool
core == <<storage, config, fresh, open, inputValue, relayUrls, effect, cache, appended>>
\* the presentation
theming == <<prefersDark, classList, themeEffect, listening>>

vars == <<storage, config, fresh, open, inputValue, relayUrls, effect, cache, appended,
          prefersDark, classList, themeEffect, listening, pool, other, writer, call>>

-----------------------------------------------------------------------------
\* Bounds of the model.

\* longest relay array of a stored payload drawn by Init
MaxPayloadRelays == 2
\* entries appended to the relay list within one behaviour
MaxAppends == 1
\* longest generated argument of normalizeRelayUrl
MaxArgLen == 4
\* applications of normalizeRelayUrl to one argument, each to the last result
MaxCalls == 2

-----------------------------------------------------------------------------
\* Strings. JavaScript strings are TLA+ strings; Len, SubSeq and \o act on them.

Letters == {"a", "b", "c", "d", "e", "f", "g", "h", "i", "j", "k", "l", "m",
            "n", "o", "p", "q", "r", "s", "t", "u", "v", "w", "x", "y", "z"}
Digits == {"0", "1", "2", "3", "4", "5", "6", "7", "8", "9"}

CharAt(s, i) == SubSeq(s, i, i)

\* String.prototype.includes
Includes(s, sub) ==
    \E i \in 1..(Len(s) - Len(sub) + 1) : SubSeq(s, i, i + Len(sub) - 1) = sub

RECURSIVE TrimStart(_)
TrimStart(s) ==
    IF Len(s) > 0 /\ CharAt(s, 1) = " " THEN TrimStart(SubSeq(s, 2, Len(s))) ELSE s

RECURSIVE TrimEnd(_)
TrimEnd(s) ==
    IF Len(s) > 0 /\ CharAt(s, Len(s)) = " " THEN TrimEnd(SubSeq(s, 1, Len(s) - 1)) ELSE s

\* String.prototype.trim
Trim(s) == TrimEnd(TrimStart(s))

\* index of the first occurrence of the one-character string c in s, 0 if none
IndexOf(s, c) ==
    IF \E i \in 1..Len(s) : CharAt(s, i) = c
    THEN CHOOSE i \in 1..Len(s) :
            CharAt(s, i) = c /\ \A j \in 1..(i - 1) : CharAt(s, j) # c
    ELSE 0

RECURSIVE StripSlashes(_)
StripSlashes(s) ==
    IF Len(s) > 0 /\ CharAt(s, 1) = "/" THEN StripSlashes(SubSeq(s, 2, Len(s))) ELSE s

SpecialSchemes == {"ws", "wss", "http", "https", "ftp"}

\* new URL(s) does not throw: a scheme, and for the special schemes a host
\* (and a numeric port, if any). zod's string().url() is this test.
IsUrl(s) ==
    LET t == Trim(s)
        c == IndexOf(t, ":")
        scheme == SubSeq(t, 1, c - 1)
        rest == StripSlashes(SubSeq(t, c + 1, Len(t)))
        slash == IndexOf(rest, "/")
        authority == IF slash = 0 THEN rest ELSE SubSeq(rest, 1, slash - 1)
        colon == IndexOf(authority, ":")
        host == IF colon = 0 THEN authority ELSE SubSeq(authority, 1, colon - 1)
        port == IF colon = 0 THEN "" ELSE SubSeq(authority, colon + 1, Len(authority))
    IN  /\ c > 1
        /\ CharAt(t, 1) \in Letters
        /\ \A i \in 2..(c - 1) : CharAt(t, i) \in Letters \cup Digits \cup {"+", "-", "."}
        /\ scheme \in SpecialSchemes =>
              /\ host # ""
              /\ ~Includes(host, " ")
              /\ \A i \in 1..Len(port) : CharAt(port, i) \in Digits

\* normalizeRelayUrl, a mutant: the trimmed string is returned without the prefix
normalizeRelayUrl_NoPrefix(url) == Trim(url)

\* normalizeRelayUrl
normalizeRelayUrl(url) ==
    LET trimmed == Trim(url)
    IN  IF trimmed = "" THEN trimmed
        ELSE IF Includes(trimmed, "://") THEN trimmed
        ELSE "wss://" \o trimmed

-----------------------------------------------------------------------------
\* AppConfig (AppContext) and the host application's constants (App).

Themes == {"dark", "light", "system"}

RelayConfigItem(u, e) == [url |-> u, enabled |-> e]

defaultConfig ==
    [theme |-> "dark",
     relays |-> << RelayConfigItem("wss://nostr-01.yakihonne.com", TRUE),
                   RelayConfigItem("wss://nostr-02.yakihonne.com", TRUE),
                   RelayConfigItem("wss://relay.damus.io", TRUE),
                   RelayConfigItem("wss://relay.angor.io", TRUE),
                   RelayConfigItem("wss://relay.primal.net", TRUE),
                   RelayConfigItem("wss://nos.lol", TRUE) >>]

presetRelays ==
    << [url |-> "wss://nostr-01.yakihonne.com", name |-> "Yakihonne 01"],
       [url |-> "wss://nostr-02.yakihonne.com", name |-> "Yakihonne 02"],
       [url |-> "wss://relay.damus.io", name |-> "Damus"],
       [url |-> "wss://relay.angor.io", name |-> "Angor"],
       [url |-> "wss://relay.primal.net", name |-> "Primal"],
       [url |-> "wss://nos.lol", name |-> "nos.lol"] >>

\* config.relays.filter((r) => r.enabled)
EnabledOf(relays) == SelectSeq(relays, LAMBDA r : r.enabled)

EnabledCount(relays) == Len(EnabledOf(relays))

Urls(relays) == [i \in 1..Len(relays) |-> relays[i].url]

-----------------------------------------------------------------------------
\* Stored payloads. A stored item is text; JSON.parse of it throws or yields a
\* JSON value. A value is a record tagged with its JSON type; a key an object
\* does not have reads as JAbsent.

JAbsent == [t |-> "absent"]
JStr(s) == [t |-> "string", v |-> s]
JBool(b) == [t |-> "boolean", v |-> b]
JNum == [t |-> "number"]
JArr(q) == [t |-> "array", v |-> q]
JItem(u, e) == [t |-> "object", url |-> u, enabled |-> e]
JObj(th, rl, ru) == [t |-> "object", theme |-> th, relays |-> rl, relayUrl |-> ru]

NoItem == [kind |-> "none"]
Garbage == [kind |-> "garbage"]
Json(v) == [kind |-> "json", value |-> v]

\* serialize, a mutant: only the enabled relays are written
serialize_EnabledOnly(c) ==
    Json(JObj(JStr(c.theme),
              JArr([i \in 1..Len(EnabledOf(c.relays)) |->
                      JItem(JStr(EnabledOf(c.relays)[i].url), JBool(TRUE))]),
              JAbsent))

\* the serialize option AppProvider hands to useLocalStorage: JSON.stringify
\* of an AppConfig, as the text whose parse is this value
serialize(c) ==
    Json(JObj(JStr(c.theme),
              JArr([i \in 1..Len(c.relays) |->
                      JItem(JStr(c.relays[i].url), JBool(c.relays[i].enabled))]),
              JAbsent))

\* z.enum(['dark', 'light', 'system'])
ThemeOk(v) == v.t = "string" /\ v.v \in Themes

\* RelayConfigItemSchema
RelayConfigItemOk(v) ==
    /\ v.t = "object"
    /\ v.url.t = "string" /\ IsUrl(v.url.v)
    /\ v.enabled.t = "boolean"

\* AppConfigSchema.safeParse(v).success
AppConfigSchemaOk(v) ==
    /\ v.t = "object"
    /\ ThemeOk(v.theme)
    /\ v.relays.t = "array"
    /\ Len(v.relays.v) >= 1
    /\ \A i \in 1..Len(v.relays.v) : RelayConfigItemOk(v.relays.v[i])

\* AppConfigSchema.safeParse(v).data: the declared keys only
AppConfigData(v) ==
    [theme |-> v.theme.v,
     relays |-> [i \in 1..Len(v.relays.v) |->
                   RelayConfigItem(v.relays.v[i].url.v, v.relays.v[i].enabled.v)]]

\* LegacyAppConfigSchema.safeParse(v).success, a mutant: relayUrl is any string
LegacySchemaOk_AnyString(v) ==
    /\ v.t = "object"
    /\ ThemeOk(v.theme)
    /\ v.relayUrl.t = "string"

\* LegacyAppConfigSchema.safeParse(v).success
LegacySchemaOk(v) ==
    /\ v.t = "object"
    /\ ThemeOk(v.theme)
    /\ v.relayUrl.t = "string" /\ IsUrl(v.relayUrl.v)

\* the repair of a config with no relay enabled, a mutant: no repair
RepairEnabled_Skip(data) == data

\* deserialize: "Defensive: ensure at least one enabled relay"
RepairEnabled(data) ==
    IF \E i \in 1..Len(data.relays) : data.relays[i].enabled
    THEN data
    ELSE [data EXCEPT !.relays =
            [i \in 1..Len(data.relays) |-> [data.relays[i] EXCEPT !.enabled = (i = 1)]]]

\* the legacy migration, a mutant: the migrated relay is left disabled
MigrateLegacy_Off(v) ==
    [theme |-> v.theme.v, relays |-> << RelayConfigItem(v.relayUrl.v, FALSE) >>]

\* deserialize: "Legacy config migration"
MigrateLegacy(v) ==
    [theme |-> v.theme.v, relays |-> << RelayConfigItem(v.relayUrl.v, TRUE) >>]

\* deserialize, a mutant: the legacy schema is tried before the current one
deserialize_LegacyFirst(item) ==
    IF item.kind = "garbage" THEN defaultConfig
    ELSE IF LegacySchemaOk(item.value) THEN MigrateLegacy(item.value)
    ELSE IF AppConfigSchemaOk(item.value) THEN RepairEnabled(AppConfigData(item.value))
    ELSE defaultConfig

\* the deserialize option AppProvider hands to useLocalStorage
deserialize(item) ==
    IF item.kind = "garbage" THEN defaultConfig          \* JSON.parse throws
    ELSE IF AppConfigSchemaOk(item.value) THEN RepairEnabled(AppConfigData(item.value))
    ELSE IF LegacySchemaOk(item.value) THEN MigrateLegacy(item.value)
    ELSE defaultConfig

\* load(): the stored item deserialized, the default config when there is none
Load(item) == IF item.kind = "none" THEN defaultConfig ELSE deserialize(item)

\* The payloads Init draws from.
PayloadThemes == {JStr("system"), JStr("blue"), JAbsent}

\* relay items the schema accepts
PayloadItems ==
    {JItem(JStr("wss://a.io"), JBool(TRUE)), JItem(JStr("wss://a.io"), JBool(FALSE)),
     JItem(JStr("wss://b.io"), JBool(FALSE))}

\* relay arrays: every array of accepted items, an array whose url has no
\* "://", and arrays the schema rejects
PayloadArrays ==
    UNION {[1..n -> PayloadItems] : n \in 0..MaxPayloadRelays}
        \cup {<< JItem(JStr("localhost:7777"), JBool(TRUE)) >>,
              << JItem(JStr("b.io"), JBool(TRUE)) >>,
              << JItem(JStr("wss://a.io"), JStr("yes")) >>,
              << JItem(JStr("wss://a.io"), JBool(TRUE)), JNum >>}

PayloadRelays == {JAbsent, JStr("wss://a.io")} \cup {JArr(q) : q \in PayloadArrays}

PayloadRelayUrls == {JAbsent, JStr("wss://old.io"), JStr("old.io")}

Payloads ==
    {NoItem, Garbage, Json(JNum)}
        \cup {Json(JObj(th, rl, ru)) :
                th \in PayloadThemes, rl \in PayloadRelays, ru \in PayloadRelayUrls}

\* The stored items the selector is driven from: none, two relays of which one
\* is enabled, a url stored twice, and a url stored without "://".
SelectorPayloads ==
    {NoItem,
     Json(JObj(JStr("system"),
               JArr(<< JItem(JStr("wss://a.io"), JBool(TRUE)),
                       JItem(JStr("wss://b.io"), JBool(FALSE)) >>), JAbsent)),
     Json(JObj(JStr("system"),
               JArr(<< JItem(JStr("wss://a.io"), JBool(FALSE)),
                       JItem(JStr("wss://a.io"), JBool(TRUE)) >>), JAbsent)),
     Json(JObj(JStr("system"),
               JArr(<< JItem(JStr("localhost:7777"), JBool(TRUE)) >>), JAbsent))}

\* The stored items the presentation is driven from: none (the default theme
\* is dark), and the system theme with one relay.
ThemePayloads ==
    {NoItem,
     Json(JObj(JStr("system"),
               JArr(<< JItem(JStr("wss://a.io"), JBool(TRUE)) >>), JAbsent))}

\* The stored items two tabs are driven from: two relays of which one is
\* enabled.
TabPayloads ==
    {Json(JObj(JStr("system"),
               JArr(<< JItem(JStr("wss://a.io"), JBool(TRUE)),
                       JItem(JStr("wss://b.io"), JBool(FALSE)) >>), JAbsent))}

\* The arguments normalizeRelayUrl is called with: every string of up to
\* MaxArgLen characters out of a space, a letter, ":" and "/", and the urls of
\* the documentation.
ArgChars == {" ", "x", ":", "/"}

RECURSIVE ArgsUpTo(_)
ArgsUpTo(n) ==
    IF n = 0 THEN {""}
    ELSE LET shorter == ArgsUpTo(n - 1)
         IN  shorter \cup {a \o c : a \in shorter, c \in ArgChars}

NormalizeArgs ==
    ArgsUpTo(MaxArgLen) \cup {"relay.example.com", "ws://x", " ws://x ", "  "}

\* The stored items the pool is driven from: none, so that the default config
\* with its six enabled relays is loaded.
PoolPayloads == {NoItem}

-----------------------------------------------------------------------------
\* RelaySelector.

Upper == <<"A", "B", "C", "D", "E", "F", "G", "H", "I", "J", "K", "L", "M",
           "N", "O", "P", "Q", "R", "S", "T", "U", "V", "W", "X", "Y", "Z">>
Lower == <<"a", "b", "c", "d", "e", "f", "g", "h", "i", "j", "k", "l", "m",
           "n", "o", "p", "q", "r", "s", "t", "u", "v", "w", "x", "y", "z">>

LowerOf == [c \in {Upper[k] : k \in 1..26} |-> Lower[CHOOSE k \in 1..26 : Upper[k] = c]]

LowerChar(c) == IF c \in DOMAIN LowerOf THEN LowerOf[c] ELSE c

\* String.prototype.toLowerCase
RECURSIVE toLowerCase(_)
toLowerCase(s) ==
    IF s = "" THEN "" ELSE LowerChar(CharAt(s, 1)) \o toLowerCase(SubSeq(s, 2, Len(s)))

\* what the user can type into the CommandInput
TypedInputs == {"", "my.relay.org", " wss://a.io ", "Yakihonne 0"}

\* isValidRelayInput
isValidRelayInput(value) ==
    LET trimmed == Trim(value)
    IN  IF trimmed = "" THEN FALSE ELSE IsUrl(normalizeRelayUrl(trimmed))

\* the index of the entry current.relays.find((r) => r.url === normalized), 0 if none
FindRelay(relays, normalized) ==
    IF \E i \in 1..Len(relays) : relays[i].url = normalized
    THEN CHOOSE i \in 1..Len(relays) :
            relays[i].url = normalized /\ \A j \in 1..(i - 1) : relays[j].url # normalized
    ELSE 0

\* the updater upsertRelay hands to updateConfig returns `current` itself
upsertRejects(current, url, enabled) ==
    LET normalized == normalizeRelayUrl(url)
        existing == FindRelay(current.relays, normalized)
    IN  /\ existing # 0
        /\ current.relays[existing].enabled
        /\ ~enabled
        /\ EnabledCount(current.relays) <= 1

\* the updater, a mutant: enabling never looks for an existing entry
upsertUpdater_Duplicate(current, url, enabled) ==
    LET normalized == normalizeRelayUrl(url)
        existing == FindRelay(current.relays, normalized)
    IN  IF upsertRejects(current, url, enabled) THEN current
        ELSE IF existing # 0 /\ ~enabled
             THEN [current EXCEPT !.relays =
                     [i \in 1..Len(current.relays) |->
                        IF current.relays[i].url = normalized
                        THEN [current.relays[i] EXCEPT !.enabled = enabled]
                        ELSE current.relays[i]]]
        ELSE [current EXCEPT !.relays =
                Append(current.relays, RelayConfigItem(normalized, TRUE))]

\* the updater, a mutant: a new entry goes to the front of the list
upsertUpdater_Prepend(current, url, enabled) ==
    LET normalized == normalizeRelayUrl(url)
        existing == FindRelay(current.relays, normalized)
    IN  IF upsertRejects(current, url, enabled) THEN current
        ELSE IF existing # 0
             THEN [current EXCEPT !.relays =
                     [i \in 1..Len(current.relays) |->
                        IF current.relays[i].url = normalized
                        THEN [current.relays[i] EXCEPT !.enabled = enabled]
                        ELSE current.relays[i]]]
        ELSE [current EXCEPT !.relays =
                << RelayConfigItem(normalized, TRUE) >> \o current.relays]

\* the updater upsertRelay hands to updateConfig: its result
upsertUpdater(current, url, enabled) ==
    LET normalized == normalizeRelayUrl(url)
        existing == FindRelay(current.relays, normalized)
    IN  IF upsertRejects(current, url, enabled) THEN current
        ELSE IF existing # 0
             THEN [current EXCEPT !.relays =
                     [i \in 1..Len(current.relays) |->
                        IF current.relays[i].url = normalized
                        THEN [current.relays[i] EXCEPT !.enabled = enabled]
                        ELSE current.relays[i]]]
        ELSE [current EXCEPT !.relays =
                Append(current.relays, RelayConfigItem(normalized, TRUE))]

\* the indexes of the items the "Enabled" group shows
EnabledShown(relays, input) ==
    {i \in 1..Len(relays) :
        /\ relays[i].enabled
        /\ input = "" \/ Includes(toLowerCase(relays[i].url), toLowerCase(input))}

\* the entries of the Map the "Available" group is built from, in insertion order
OptionEntries(relays) ==
    [i \in 1..Len(presetRelays) |->
        [key |-> normalizeRelayUrl(presetRelays[i].url),
         url |-> presetRelays[i].url, name |-> presetRelays[i].name]]
    \o [i \in 1..Len(relays) |->
        [key |-> normalizeRelayUrl(relays[i].url),
         url |-> relays[i].url, name |-> relays[i].url]]

\* [...new Map(entries).values()]: one value per key, at the place of the key's
\* first entry, the value of its last entry
MapValues(entries) ==
    LET firsts == SelectSeq([i \in 1..Len(entries) |-> i],
                            LAMBDA i : \A j \in 1..(i - 1) : entries[j].key # entries[i].key)
        last(k) == CHOOSE j \in 1..Len(entries) :
                      /\ entries[j].key = k
                      /\ \A m \in (j + 1)..Len(entries) : entries[m].key # k
    IN  [n \in 1..Len(firsts) |->
            [url |-> entries[last(entries[firsts[n]].key)].url,
             name |-> entries[last(entries[firsts[n]].key)].name]]

\* the options the "Available" group shows
AvailableOptions(relays, input) ==
    SelectSeq(MapValues(OptionEntries(relays)),
              LAMBDA option :
                 LET url == normalizeRelayUrl(option.url)
                 IN  /\ url # ""
                     /\ ~\E i \in 1..Len(relays) : relays[i].enabled /\ relays[i].url = url
                     /\ \/ input = ""
                        \/ Includes(toLowerCase(option.name), toLowerCase(input))
                        \/ Includes(toLowerCase(url), toLowerCase(input)))

-----------------------------------------------------------------------------
\* NostrProvider.

NoEffect == [pending |-> FALSE, relays |-> << >>]
PendingEffect(relays) == [pending |-> TRUE, relays |-> relays]

EmptyCache == [filled |-> FALSE, from |-> << >>]

\* useRef's initial value: the enabled urls, without the fallback
InitialRelayUrls(relays) == Urls(EnabledOf(relays))

\* the effect's list, a mutant: no fallback to the first configured relay
ActiveUrls_NoFallback(relays) == Urls(EnabledOf(relays))

\* the list the effect stores in relayUrls.current
ActiveUrls(relays) ==
    LET enabled == Urls(EnabledOf(relays))
    IN  IF Len(enabled) > 0 THEN enabled
        ELSE IF Len(relays) = 0 THEN << >> ELSE << relays[1].url >>

-----------------------------------------------------------------------------
\* NostrProvider's pool: `if (!pool.current) pool.current = new NPool(...)`,
\* on the count of instances constructed

\* the render, a mutant: a pool is constructed on every render
CreatePool_EveryRender(n) == n + 1

CreatePool(n) == IF n = 0 THEN 1 ELSE n

-----------------------------------------------------------------------------
\* useApplyTheme.

NoThemeEffect == [pending |-> FALSE, theme |-> "dark"]
PendingTheme(theme) == [pending |-> TRUE, theme |-> theme]

\* matches ? 'dark' : 'light'
SystemTheme(matches) == IF matches THEN "dark" ELSE "light"

\* the first effect, a mutant: the markers are not removed before one is added
ApplyTheme_NoRemove(classes, theme, matches) ==
    classes \cup {IF theme = "system" THEN SystemTheme(matches) ELSE theme}

\* the first effect on the root's classList: remove('light', 'dark'), then add
\* the system theme or the theme
ApplyTheme(classes, theme, matches) ==
    (classes \ {"light", "dark"})
        \cup {IF theme = "system" THEN SystemTheme(matches) ELSE theme}

\* handleChange, a mutant: it adds the theme it saw when it was subscribed
HandleChange_Stale(classes, matches) ==
    (classes \ {"light", "dark"}) \cup {SystemTheme(~matches)}

\* handleChange on the root's classList, with mediaQuery.matches
HandleChange(classes, matches) ==
    (classes \ {"light", "dark"}) \cup {SystemTheme(matches)}

\* the two effects, when they are pending and run: the classList, and whether
\* handleChange is subscribed (the cleanup of the earlier run unsubscribes)
FlushedClassList ==
    IF themeEffect.pending
    THEN ApplyTheme(classList, themeEffect.theme, prefersDark) ELSE classList

FlushedListening ==
    IF themeEffect.pending THEN themeEffect.theme = "system" ELSE listening

-----------------------------------------------------------------------------
\* The state after construction: AppProvider has loaded the stored item and
\* NostrProvider has rendered once; its effect has not run yet.

InitFrom(payloads, prefs, args) ==
    /\ storage \in payloads
    /\ prefersDark \in prefs
    /\ classList = {}
    /\ themeEffect = PendingTheme(Load(storage).theme)
    /\ listening = FALSE
    /\ pool = 1
    /\ other = Load(storage)
    /\ writer = 0
    /\ call \in {[arg |-> a, ret |-> a, applied |-> 0] : a \in args}
    /\ config = Load(storage)
    /\ fresh = TRUE
    /\ open = FALSE
    /\ inputValue = ""
    /\ relayUrls = InitialRelayUrls(config.relays)
    /\ effect = PendingEffect(config.relays)
    /\ cache = EmptyCache
    /\ appended = 0

Init == InitFrom(Payloads, BOOLEAN, {""})

\* construction over the stored items the selector is driven from
InitSelector == InitFrom(SelectorPayloads, {TRUE}, {""})

\* construction over the stored items the presentation is driven from, with
\* the host preferring dark
InitTheme == InitFrom(ThemePayloads, {TRUE}, {""})

\* construction of two tabs over the same stored item
InitTabs == InitFrom(TabPayloads, {TRUE}, {""})

\* construction, with an argument for normalizeRelayUrl drawn
InitNormalize == InitFrom({NoItem}, {TRUE}, NormalizeArgs)

\* construction over the stored items the pool is driven from
InitPool == InitFrom(PoolPayloads, {TRUE}, {""})

-----------------------------------------------------------------------------
\* setConfig of useLocalStorage: the state is set and the whole config is saved
setConfig(next) ==
    /\ config' = next
    /\ storage' = serialize(next)
    /\ fresh' = FALSE
    /\ writer' = 1

\* updateConfig(updater) with updater(config) = next.
\* same: the updater returned `config` itself, so nothing renders. Otherwise the
\* tree renders: the effect of the previous commit, if still pending, runs first,
\* and NostrProvider's effect is scheduled again when the relays array is a new one.
UpdateConfig(next, same, newRelays) ==
    /\ setConfig(next)
    /\ IF same
       THEN UNCHANGED <<relayUrls, effect, cache, classList, themeEffect, listening, pool>>
       ELSE /\ relayUrls' = IF effect.pending THEN ActiveUrls(effect.relays) ELSE relayUrls
            /\ cache' = IF effect.pending THEN EmptyCache ELSE cache
            /\ effect' = IF newRelays THEN PendingEffect(next.relays) ELSE NoEffect
            /\ classList' = FlushedClassList
            /\ listening' = FlushedListening
            /\ themeEffect' = IF next.theme # config.theme
                               THEN PendingTheme(next.theme) ELSE NoThemeEffect
            /\ pool' = CreatePool(pool)
    /\ UNCHANGED <<prefersDark, other, call>>

\* upsertRelay(rawUrl, enabled)
UpsertRelay(rawUrl, enabled) ==
    LET url == normalizeRelayUrl(rawUrl)
        next == upsertUpdater(config, url, enabled)
        rejected == upsertRejects(config, url, enabled)
        grew == Len(next.relays) > Len(config.relays)
    IN  IF url = ""
        THEN UNCHANGED <<storage, config, fresh, relayUrls, effect, cache, appended,
                         theming, pool, other, writer, call>>
        ELSE /\ grew => appended < MaxAppends
             /\ appended' = IF grew THEN appended + 1 ELSE appended
             /\ UpdateConfig(next, rejected, ~rejected)

\* Popover onOpenChange={setOpen}: the trigger opens, a dismissal closes
OpenChange(b) ==
    /\ open # b
    /\ open' = b
    /\ UNCHANGED <<storage, config, fresh, inputValue, relayUrls, effect, cache, appended>>
    /\ UNCHANGED <<theming, pool, other, writer, call>>

\* CommandInput onValueChange={setInputValue}
TypeInput(v) ==
    /\ open
    /\ v # inputValue
    /\ inputValue' = v
    /\ UNCHANGED <<storage, config, fresh, open, relayUrls, effect, cache, appended>>
    /\ UNCHANGED <<theming, pool, other, writer, call>>

\* onSelect of item i of the "Enabled" group
SelectEnabled ==
    /\ open
    /\ \E i \in EnabledShown(config.relays, inputValue) :
          UpsertRelay(config.relays[i].url, FALSE)
    /\ UNCHANGED <<open, inputValue>>

\* onSelect of an item of the "Available" group: upsertRelay(url, true)
SelectOption(url) ==
    /\ UpsertRelay(url, TRUE)
    /\ UNCHANGED <<open, inputValue>>

\* onSelect of item k of the "Available" group
SelectAvailable ==
    /\ open
    /\ LET options == AvailableOptions(config.relays, inputValue)
       IN  \E k \in 1..Len(options) : SelectOption(normalizeRelayUrl(options[k].url))

\* handleAddCustomRelay, a mutant: the typed filter is kept
AddCustomRelay_KeepsInput ==
    /\ open
    /\ inputValue # ""
    /\ isValidRelayInput(inputValue)
    /\ UpsertRelay(inputValue, TRUE)
    /\ open' = FALSE
    /\ inputValue' = inputValue

\* onSelect of "Add custom relay": handleAddCustomRelay(inputValue)
AddCustomRelay ==
    /\ open
    /\ inputValue # ""
    /\ isValidRelayInput(inputValue)
    /\ UpsertRelay(inputValue, TRUE)
    /\ open' = FALSE
    /\ inputValue' = ""

\* the effects of useApplyTheme, when they are pending, run
RunThemeEffects ==
    /\ classList' = FlushedClassList
    /\ listening' = FlushedListening
    /\ themeEffect' = NoThemeEffect
    /\ UNCHANGED prefersDark

\* NostrProvider's useEffect, a mutant: the query cache is not reset
RunEffect_NoReset ==
    /\ effect.pending \/ themeEffect.pending
    /\ relayUrls' = IF effect.pending THEN ActiveUrls(effect.relays) ELSE relayUrls
    /\ effect' = NoEffect
    /\ RunThemeEffects
    /\ UNCHANGED <<storage, config, fresh, open, inputValue, cache, appended>>
    /\ UNCHANGED <<pool, other, writer, call>>

\* The effects the last commit scheduled run, all in one pass: NostrProvider's
\* useEffect on [config.relays, queryClient], and the effects of useApplyTheme
RunEffect ==
    /\ effect.pending \/ themeEffect.pending
    /\ relayUrls' = IF effect.pending THEN ActiveUrls(effect.relays) ELSE relayUrls
    /\ cache' = IF effect.pending THEN EmptyCache ELSE cache   \* resetQueries()
    /\ effect' = NoEffect
    /\ RunThemeEffects
    /\ UNCHANGED <<storage, config, fresh, open, inputValue, appended>>
    /\ UNCHANGED <<pool, other, writer, call>>

\* the pool's reqRouter(filters): a query is routed, its result is cached
ReqRouter ==
    /\ cache' = [filled |-> TRUE, from |-> relayUrls]
    /\ UNCHANGED <<storage, config, fresh, open, inputValue, relayUrls, effect, appended>>
    /\ UNCHANGED <<theming, pool, other, writer, call>>

\* the pool's eventRouter(event): an event is published to relayUrls.current;
\* nothing of this state changes
EventRouter ==
    /\ relayUrls = relayUrls
    /\ UNCHANGED vars

\* the page is loaded again: every component is constructed anew
Reload ==
    /\ ~fresh
    /\ config' = Load(storage)
    /\ fresh' = TRUE
    /\ open' = FALSE
    /\ inputValue' = ""
    /\ relayUrls' = InitialRelayUrls(config'.relays)
    /\ effect' = PendingEffect(config'.relays)
    /\ cache' = EmptyCache
    /\ classList' = {}
    /\ themeEffect' = PendingTheme(config'.theme)
    /\ listening' = FALSE
    /\ pool' = CreatePool(0)
    /\ UNCHANGED <<storage, appended, prefersDark, other, writer, call>>

\* the host's color-scheme preference changes: the media query fires 'change'
\* at its listeners
HostChange ==
    /\ prefersDark' = ~prefersDark
    /\ classList' = IF listening THEN HandleChange(classList, prefersDark')
                                 ELSE classList
    /\ UNCHANGED <<themeEffect, listening>>
    /\ UNCHANGED <<core, pool, other, writer, call>>

\* normalizeRelayUrl is applied: to the argument, then to its own result
Normalize ==
    /\ call.applied < MaxCalls
    /\ call' = [call EXCEPT !.ret = normalizeRelayUrl(call.ret),
                            !.applied = call.applied + 1]
    /\ UNCHANGED <<core, theming, pool, other, writer>>

\* updateConfig called by the rest of the application: a theme change
SetTheme(t) ==
    /\ t # config.theme
    /\ UpdateConfig([config EXCEPT !.theme = t], FALSE, FALSE)
    /\ UNCHANGED <<open, inputValue, appended>>

\* updateConfig called by the rest of the application: every relay is disabled
DisableAll ==
    /\ EnabledCount(config.relays) > 0
    /\ UpdateConfig([config EXCEPT !.relays =
                        [i \in 1..Len(config.relays) |->
                            [config.relays[i] EXCEPT !.enabled = FALSE]]],
                    FALSE, TRUE)
    /\ UNCHANGED <<open, inputValue, appended>>

\* updateConfig called by the rest of the application: the relay list is emptied
ClearRelays ==
    /\ Len(config.relays) > 0
    /\ UpdateConfig([config EXCEPT !.relays = << >>], FALSE, TRUE)
    /\ UNCHANGED <<open, inputValue, appended>>

\* setConfig in the other tab: its state is set and the whole config is saved
\* under the shared key; this tab is not told
OtherSetConfig(next) ==
    /\ other' = next
    /\ storage' = serialize(next)
    /\ writer' = 2
    /\ UNCHANGED <<config, fresh, open, inputValue, relayUrls, effect, cache, appended>>
    /\ UNCHANGED <<theming, pool, call>>

\* the other tab's theme change, a mutant: the updater is applied to the
\* stored config, not to the tab's own
OtherSetTheme_FromStorage(t) ==
    /\ t # other.theme
    /\ OtherSetConfig([Load(storage) EXCEPT !.theme = t])

\* the other tab: a theme change, the updater applied to its own config
OtherSetTheme(t) ==
    /\ t # other.theme
    /\ OtherSetConfig([other EXCEPT !.theme = t])

\* the other tab: its selector enables or disables relay i of its list
OtherUpsertRelay(i) ==
    /\ i \in 1..Len(other.relays)
    /\ FindRelay(other.relays, normalizeRelayUrl(other.relays[i].url)) # 0
    /\ OtherSetConfig(upsertUpdater(other, other.relays[i].url, ~other.relays[i].enabled))

\* the other tab is loaded again
OtherReload ==
    /\ other # Load(storage)
    /\ other' = Load(storage)
    /\ UNCHANGED <<core, theming, pool, writer, call>>

OtherTab ==
    \/ \E t \in Themes : OtherSetTheme(t)
    \/ \E i \in 1..MaxPayloadRelays : OtherUpsertRelay(i)
    \/ OtherReload

Selector ==
    \/ \E b \in BOOLEAN : OpenChange(b)
    \/ \E v \in TypedInputs : TypeInput(v)
    \/ SelectEnabled
    \/ SelectAvailable
    \/ AddCustomRelay

Provider ==
    \/ RunEffect
    \/ ReqRouter
    \/ EventRouter

Programmatic ==
    \/ \E t \in Themes : SetTheme(t)
    \/ DisableAll
    \/ ClearRelays

\* the application: the selector, the providers, the other callers of
\* updateConfig, and the page being loaded again
Next == Selector \/ Provider \/ Programmatic \/ Reload

Spec == Init /\ [][Next]_vars

\* the config store under the callers of updateConfig outside the selector
NextStore == Programmatic \/ Reload

SpecStore == Init /\ [][NextStore]_vars

\* the selector: it is the only caller of updateConfig
NextSelector == Selector \/ Reload

SpecSelector == InitSelector /\ [][NextSelector]_vars

\* the relay pool under every kind of config change: the user picks listed
\* relays, the rest of the application calls updateConfig
NextPool ==
    \/ \E b \in BOOLEAN : OpenChange(b)
    \/ SelectEnabled
    \/ SelectAvailable
    \/ Provider
    \/ Programmatic
    \/ Reload

SpecPool == InitPool /\ [][NextPool]_vars

\* the presentation under theme changes, host preference changes, the
\* providers' effects and the page being loaded again
NextTheme ==
    \/ \E t \in Themes : SetTheme(t)
    \/ HostChange
    \/ Provider
    \/ Reload

SpecTheme == InitTheme /\ [][NextTheme]_vars

\* normalizeRelayUrl as a function of its argument
NextNormalize == Normalize

SpecNormalize == InitNormalize /\ [][NextNormalize]_vars

\* two tabs on one storage key: both call updateConfig, either is loaded again
NextTabs == Programmatic \/ OtherTab \/ Reload

SpecTabs == InitTabs /\ [][NextTabs]_vars

-----------------------------------------------------------------------------
\* C1: in every reachable state the config has at least one relay entry and at
\* least one entry with enabled = true, whatever payload was loaded and whatever
\* the selector did since.
C1_AlwaysOneEnabled ==
    /\ Len(config.relays) >= 1
    /\ \E i \in 1..Len(config.relays) : config.relays[i].enabled

\* C2: selecting an enabled relay changes the config if and only if more than
\* one relay is enabled: with one enabled relay the config is unchanged, with
\* several the enabled count drops by exactly one.
C2_DisableIffSeveral ==
    [][SelectEnabled =>
          IF EnabledCount(config.relays) > 1
          THEN EnabledCount(config'.relays) = EnabledCount(config.relays) - 1
          ELSE config' = config]_vars

-----------------------------------------------------------------------------
\* The two stored shapes, as the claims about load() state them.

\* v is {theme, relays} with a theme of the three, and a non-empty array of
\* {url: a URL, enabled: a boolean}
IsCurrentPayload(v) ==
    /\ v.t = "object"
    /\ v.theme \in {JStr("dark"), JStr("light"), JStr("system")}
    /\ v.relays.t = "array"
    /\ v.relays.v # << >>
    /\ \A i \in 1..Len(v.relays.v) :
          LET r == v.relays.v[i]
          IN  /\ r.t = "object"
              /\ r.url.t = "string" /\ IsUrl(r.url.v)
              /\ r.enabled \in {JBool(TRUE), JBool(FALSE)}

\* v is {theme, relayUrl} with a theme of the three and a URL
IsLegacyPayload(v) ==
    /\ v.t = "object"
    /\ v.theme \in {JStr("dark"), JStr("light"), JStr("system")}
    /\ v.relayUrl.t = "string" /\ IsUrl(v.relayUrl.v)

\* the stored item was just loaded into config, and is JSON text
JustLoadedJson == fresh /\ storage.kind = "json"

\* C3: a stored payload that cannot be parsed, or that parses and fails both
\* schemas, loads as exactly the default config.
C3_InvalidLoadsDefault ==
    /\ (fresh /\ storage.kind = "garbage") => config = defaultConfig
    /\ (JustLoadedJson /\ ~IsCurrentPayload(storage.value) /\ ~IsLegacyPayload(storage.value))
          => config = defaultConfig

\* C3 witness: a payload with a theme, a relay array and a relayUrl, none of the
\* last two valid, was loaded as the default config
C3_Witness ==
    /\ JustLoadedJson
    /\ storage.value.t = "object"
    /\ storage.value.theme = JStr("system")
    /\ storage.value.relays = JArr(<< JItem(JStr("b.io"), JBool(TRUE)) >>)
    /\ storage.value.relayUrl = JStr("old.io")
    /\ config = defaultConfig

\* C4: a valid legacy payload {theme, relayUrl} loads as the same theme and one
\* relay entry, enabled, whose url is relayUrl.
C4_LegacyMigrated ==
    (JustLoadedJson /\ IsLegacyPayload(storage.value) /\ storage.value.relays = JAbsent)
        => /\ config.theme = storage.value.theme.v
           /\ config.relays = << [url |-> storage.value.relayUrl.v, enabled |-> TRUE] >>

\* C4 witness: the legacy payload {system, wss://old.io} was loaded
C4_Witness ==
    /\ JustLoadedJson
    /\ storage.value = JObj(JStr("system"), JAbsent, JStr("wss://old.io"))
    /\ config = [theme |-> "system",
                 relays |-> << [url |-> "wss://old.io", enabled |-> TRUE] >>]

\* C5: a valid current-schema payload with no relay enabled loads as the same
\* theme and the same relay list with entry 0 enabled and the others as they
\* were; one with a relay enabled loads unchanged.
C5_RepairFirst ==
    (JustLoadedJson /\ IsCurrentPayload(storage.value)) =>
        LET stored == storage.value.relays.v
        IN  /\ config.theme = storage.value.theme.v
            /\ Len(config.relays) = Len(stored)
            /\ \A i \in 1..Len(stored) :
                  /\ config.relays[i].url = stored[i].url.v
                  /\ config.relays[i].enabled =
                        IF \E j \in 1..Len(stored) : stored[j].enabled.v
                        THEN stored[i].enabled.v
                        ELSE i = 1

\* C5 witness: a payload of two disabled relays was loaded, the first is now enabled
C5_Witness ==
    /\ JustLoadedJson
    /\ IsCurrentPayload(storage.value)
    /\ Len(storage.value.relays.v) = 2
    /\ \A i \in 1..2 : ~storage.value.relays.v[i].enabled.v
    /\ config.relays[1].enabled
    /\ ~config.relays[2].enabled
    /\ config.relays[2].url = "wss://b.io"

-----------------------------------------------------------------------------
\* The list the pool is meant to route to, as the claims state it: the urls of
\* the enabled relays when there is one, else the url of the first configured relay.
ClaimedActive(relays) ==
    LET on == SelectSeq(relays, LAMBDA r : r.enabled)
    IN  IF on # << >> THEN [i \in 1..Len(on) |-> on[i].url]
        ELSE IF relays # << >> THEN << Head(relays).url >>
        ELSE << >>

C7_EveryChangeResets ==
    [][config' # config =>
          \/ effect'.pending
          \/ (~cache'.filled /\ relayUrls' = ClaimedActive(config'.relays))]_vars

\* C7, amended: a change of the relay list schedules the provider's effect for
\* the new list; when the effect runs, the routing reference becomes the active
\* list of the config it was scheduled for and the query cache is reset; a
\* change of the theme alone schedules nothing and leaves both as they are.
C7_RelayChangeResets ==
    [][/\ config'.relays # config.relays => effect' = PendingEffect(config'.relays)
       /\ (effect.pending /\ ~effect'.pending) =>
             (relayUrls' = ClaimedActive(effect.relays) /\ cache' = EmptyCache)
       /\ (config'.relays = config.relays /\ config'.theme # config.theme) =>
             /\ ~effect'.pending
             /\ ~effect.pending => (relayUrls' = relayUrls /\ cache' = cache)]_vars

\* C7 witness: the first default relay was disabled, the effect has run since,
\* and the routing reference holds the five others
C7_Witness ==
    /\ ~effect.pending
    /\ Len(config.relays) = 6
    /\ ~config.relays[1].enabled
    /\ \A i \in 2..6 : config.relays[i].enabled
    /\ relayUrls = [i \in 1..5 |-> defaultConfig.relays[i + 1].url]
    /\ cache = EmptyCache

-----------------------------------------------------------------------------
\* the step enables url u: by its item of the "Available" group or by add-custom
Enabling(u) ==
    \/ open' /\ inputValue' = inputValue /\ SelectOption(u) /\ SelectAvailable
    \/ ~open' /\ normalizeRelayUrl(inputValue) = u /\ AddCustomRelay

\* C8: enabling a url that the relay list holds with enabled = false sets the
\* flag of its entry and adds none: the length, the urls in their order and
\* every entry of another url stay as they are.
C8_EnableTogglesInPlace ==
    [][\A n \in 1..Len(config.relays) :
          (~config.relays[n].enabled /\ open /\ Enabling(config.relays[n].url)) =>
              /\ Len(config'.relays) = Len(config.relays)
              /\ config'.theme = config.theme
              /\ \A i \in 1..Len(config.relays) :
                    /\ config'.relays[i].url = config.relays[i].url
                    /\ IF config.relays[i].url = config.relays[n].url
                       THEN config'.relays[i].enabled
                       ELSE config'.relays[i] = config.relays[i]]_vars

\* C8 witness: of the stored relays a.io (on) and b.io (off), b.io was enabled
\* in place
C8_Witness ==
    /\ ~fresh
    /\ config.relays = << [url |-> "wss://a.io", enabled |-> TRUE],
                          [url |-> "wss://b.io", enabled |-> TRUE] >>

\* C9 as stated: whenever the selector is closed the typed filter is empty.
C9_ClosedMeansNoFilter ==
    ~open => inputValue = ""

\* C9, amended: of the steps that close the selector, adding a custom relay
\* empties the typed filter and a dismissal of the popover keeps it.
C9_OnlyAddCustomResets ==
    [][(open /\ ~open' /\ ~Reload) =>
          IF AddCustomRelay THEN inputValue' = "" ELSE inputValue' = inputValue]_vars

\* C9 witness: the selector was dismissed with a filter typed
C9_Witness ==
    /\ ~open
    /\ inputValue = "my.relay.org"

\* C10: add-custom of an input whose normalized url the relay list does not
\* hold appends the one entry {url: normalize(input), enabled: true} and keeps
\* the entries before it; "my.relay.org" appends "wss://my.relay.org".
C10_AddCustomAppends ==
    [][/\ (AddCustomRelay /\ \A i \in 1..Len(config.relays) :
                                config.relays[i].url # normalizeRelayUrl(inputValue)) =>
             config'.relays = Append(config.relays,
                                     [url |-> normalizeRelayUrl(inputValue), enabled |-> TRUE])
       /\ (AddCustomRelay /\ inputValue = "my.relay.org"
             /\ \A i \in 1..Len(config.relays) : config.relays[i].url # "wss://my.relay.org") =>
             config'.relays = Append(config.relays,
                                     [url |-> "wss://my.relay.org", enabled |-> TRUE])]_vars

\* C10 witness: "my.relay.org" was added to the six default relays
C10_Witness ==
    /\ ~open
    /\ inputValue = ""
    /\ Len(config.relays) = 7
    /\ SubSeq(config.relays, 1, 6) = defaultConfig.relays
    /\ config.relays[7] = [url |-> "wss://my.relay.org", enabled |-> TRUE]

-----------------------------------------------------------------------------
\* C11: while the theme is system and the effects have run, the presentation is
\* the host preference (dark for dark), and a change of the host preference
\* updates the presentation to the new preference and leaves the config and the
\* stored item as they are.
C11_SystemFollowsHost ==
    [][/\ (config'.theme = "system" /\ ~themeEffect'.pending) =>
             classList' = {IF prefersDark' THEN "dark" ELSE "light"}
       /\ (config.theme = "system" /\ ~themeEffect.pending /\ prefersDark' # prefersDark) =>
             /\ classList' = {IF prefersDark' THEN "dark" ELSE "light"}
             /\ config' = config
             /\ storage' = storage]_vars

\* C11 witness: the stored theme is system, the config was never changed, and
\* the host went from dark to light: the presentation is light
C11_Witness ==
    /\ fresh
    /\ writer = 0
    /\ config.theme = "system"
    /\ ~themeEffect.pending
    /\ ~prefersDark
    /\ classList = {"light"}

-----------------------------------------------------------------------------
\* the stored item that holds the whole of config c
StoredWhole(c) ==
    Json(JObj(JStr(c.theme),
              JArr([i \in 1..Len(c.relays) |->
                      JItem(JStr(c.relays[i].url), JBool(c.relays[i].enabled))]),
              JAbsent))

\* C12: with two tabs on one storage key, every write stores the whole config
\* of the tab that wrote (so the stored item is the config of the last writer),
\* and that config comes from the writer's own last-known config: a theme
\* change keeps the writer's relay list, a relay change keeps its theme and
\* urls, whatever the other tab has stored meanwhile.
C12_LastWriteWins ==
    [][(storage' # storage \/ writer' # writer) =>
          \/ /\ writer' = 1
             /\ storage' = StoredWhole(config')
             /\ other' = other
          \/ /\ writer' = 2
             /\ storage' = StoredWhole(other')
             /\ config' = config
             /\ \/ /\ other'.theme # other.theme
                   /\ other'.relays = other.relays
                \/ /\ other'.theme = other.theme
                   /\ Len(other'.relays) = Len(other.relays)
                   /\ \A i \in 1..Len(other.relays) :
                         other'.relays[i].url = other.relays[i].url]_vars

\* C12 witness: this tab has set the theme to light, the other tab has then
\* enabled its second relay and written last: the stored theme is the other
\* tab's, and this tab's config is not what is stored
C12_Witness ==
    /\ writer = 2
    /\ config.theme = "light"
    /\ other.theme = "system"
    /\ other.relays[2].enabled
    /\ storage = StoredWhole(other)
    /\ storage # StoredWhole(config)

-----------------------------------------------------------------------------
\* C13 as stated: normalizing twice gives what normalizing once gives; every
\* input without "://" gets the prefix "wss://", every input with it is
\* returned trimmed.
C13_NormalizeAsStated ==
    [][call' # call =>
          /\ call.applied >= 1 => call'.ret = call.ret
          /\ call.applied = 0 =>
                IF Includes(call.arg, "://")
                THEN call'.ret = Trim(call.arg)
                ELSE call'.ret = "wss://" \o Trim(call.arg)]_vars

\* C13, amended: normalizing twice gives what normalizing once gives, for every
\* input; an input that is empty after trimming gives the empty string, any
\* other input without "://" gets the prefix "wss://" on its trimmed text, and
\* an input with "://" is returned trimmed: "relay.example.com" gives
\* "wss://relay.example.com", "ws://x" gives "ws://x".
C13_NormalizeIdempotent ==
    [][call' # call =>
          /\ call.applied >= 1 => call'.ret = call.ret
          /\ call.applied = 0 =>
                /\ IF Trim(call.arg) = "" THEN call'.ret = ""
                   ELSE IF Includes(call.arg, "://") THEN call'.ret = Trim(call.arg)
                   ELSE call'.ret = "wss://" \o Trim(call.arg)
                /\ call.arg = "relay.example.com" => call'.ret = "wss://relay.example.com"
                /\ call.arg \in {"ws://x", " ws://x "} => call'.ret = "ws://x"
                /\ call.arg \in {"", " ", "  "} => call'.ret = ""]_vars

\* C13 witness: "relay.example.com" was normalized twice
C13_Witness ==
    /\ call.arg = "relay.example.com"
    /\ call.applied = 2
    /\ call.ret = "wss://relay.example.com"

-----------------------------------------------------------------------------
\* C14: the page holds exactly one pool instance, the one the first render
\* constructed: no config change and no later render constructs another, and
\* only the routing list changes.
C14_PoolConstructedOnce ==
    /\ pool = 1
    /\ [][(pool' = pool) \/ (fresh' /\ ~fresh)]_vars

\* C14 witness: after config changes and their renders the pool routes to
\* another list than the one it was constructed with, and it is the one pool
C14_Witness ==
    /\ pool = 1
    /\ ~fresh
    /\ ~effect.pending
    /\ relayUrls # Urls(defaultConfig.relays)
    /\ cache.filled

-----------------------------------------------------------------------------
\* C15: the "Available" list holds one candidate per normalized url; its urls
\* are those of the presets and of the configured relays that are disabled,
\* less the urls that are enabled; with a typed filter, the candidates whose
\* name or url contains the filter, letter case aside, remain and no other.
C15_AvailableCandidates ==
    LET all == AvailableOptions(config.relays, "")
        shown == AvailableOptions(config.relays, inputValue)
        U(o) == normalizeRelayUrl(o.url)
        presets == {normalizeRelayUrl(presetRelays[i].url) : i \in 1..Len(presetRelays)}
        disabled == {normalizeRelayUrl(config.relays[i].url) :
                        i \in {n \in 1..Len(config.relays) : ~config.relays[n].enabled}}
        enabled == {config.relays[i].url :
                        i \in {n \in 1..Len(config.relays) : config.relays[n].enabled}}
        match(o) == \/ Includes(toLowerCase(o.name), toLowerCase(inputValue))
                    \/ Includes(toLowerCase(U(o)), toLowerCase(inputValue))
    IN  /\ \A i, j \in 1..Len(all) : i # j => U(all[i]) # U(all[j])
        /\ {U(all[i]) : i \in 1..Len(all)} = (presets \cup disabled) \ enabled
        /\ inputValue # "" =>
              {U(shown[i]) : i \in 1..Len(shown)}
                 = {U(all[i]) : i \in {n \in 1..Len(all) : match(all[n])}}

-----------------------------------------------------------------------------
\* C16: a payload that satisfies the current schema loads as a current config
\* (its theme, its relay urls in their order), also when it carries a valid
\* relayUrl; a payload that fails the current schema and satisfies the legacy
\* one loads as the migration of its relayUrl.
C16_CurrentBeforeLegacy ==
    JustLoadedJson =>
        LET v == storage.value
        IN  /\ IsCurrentPayload(v) =>
                  /\ config.theme = v.theme.v
                  /\ Len(config.relays) = Len(v.relays.v)
                  /\ \A i \in 1..Len(v.relays.v) : config.relays[i].url = v.relays.v[i].url.v
            /\ (~IsCurrentPayload(v) /\ IsLegacyPayload(v)) =>
                  /\ config.theme = v.theme.v
                  /\ Len(config.relays) = 1
                  /\ config.relays[1].url = v.relayUrl.v

\* C16 witness: a payload with two valid relays and a valid relayUrl was loaded
\* as its two relays
C16_Witness ==
    /\ JustLoadedJson
    /\ storage.value.t = "object"
    /\ storage.value.relayUrl = JStr("wss://old.io")
    /\ storage.value.relays = JArr(<< JItem(JStr("wss://a.io"), JBool(TRUE)),
                                      JItem(JStr("wss://b.io"), JBool(FALSE)) >>)
    /\ config.relays = << [url |-> "wss://a.io", enabled |-> TRUE],
                          [url |-> "wss://b.io", enabled |-> FALSE] >>

-----------------------------------------------------------------------------
\* C17: once the pending effects have run, the root carries exactly one mode
\* marker: the theme when it is dark or light, the host preference when it is
\* system; an effect that applies the mode the root already carries leaves the
\* root as it is, and a host preference change while the theme is dark or
\* light leaves the root as it is.
C17_OneModeMarker ==
    [][/\ ~themeEffect'.pending =>
             classList' = {IF config'.theme # "system" THEN config'.theme
                           ELSE IF prefersDark' THEN "dark" ELSE "light"}
       /\ (themeEffect.pending /\ ~themeEffect'.pending
             /\ classList = {IF themeEffect.theme # "system" THEN themeEffect.theme
                             ELSE IF prefersDark THEN "dark" ELSE "light"}) =>
             classList' = classList
       /\ (~themeEffect.pending /\ config.theme \in {"dark", "light"}
             /\ prefersDark' # prefersDark) =>
             classList' = classList]_vars

\* C17 witness: the theme is the default dark and was never changed, the
\* effects have run, the host has turned to light, and the root is dark
C17_Witness ==
    /\ fresh
    /\ storage = NoItem
    /\ config.theme = "dark"
    /\ ~themeEffect.pending
    /\ ~prefersDark
    /\ classList = {"dark"}

-----------------------------------------------------------------------------
\* config c satisfies the current schema
IsCurrentConfig(c) ==
    /\ c.theme \in {"dark", "light", "system"}
    /\ c.relays # << >>
    /\ \A i \in 1..Len(c.relays) : IsUrl(c.relays[i].url)

\* C18: after a save, loading the stored item gives back the saved config when
\* it satisfies the current schema and has a relay enabled, so loading the page
\* again leaves such a config as it is; a schema-valid config with no relay
\* enabled comes back with relay 0 enabled and nothing else changed.
C18_SaveLoadRoundTrip ==
    /\ (~fresh /\ writer = 1 /\ IsCurrentConfig(config)) =>
          IF \E i \in 1..Len(config.relays) : config.relays[i].enabled
          THEN Load(storage) = config
          ELSE /\ Load(storage).theme = config.theme
               /\ Len(Load(storage).relays) = Len(config.relays)
               /\ \A i \in 1..Len(config.relays) :
                     /\ Load(storage).relays[i].url = config.relays[i].url
                     /\ Load(storage).relays[i].enabled = (i = 1)
    /\ [][(~fresh /\ fresh' /\ writer = 1 /\ IsCurrentConfig(config)
             /\ \E i \in 1..Len(config.relays) : config.relays[i].enabled) =>
             config' = config]_vars

\* C18 witness: the two stored relays were all disabled by an update and the
\* page was loaded again: the first relay is enabled
C18_Witness ==
    /\ fresh
    /\ writer = 1
    /\ storage = StoredWhole([theme |-> "system",
                              relays |-> << [url |-> "wss://a.io", enabled |-> FALSE],
                                            [url |-> "wss://b.io", enabled |-> FALSE] >>])
    /\ config = [theme |-> "system",
                 relays |-> << [url |-> "wss://a.io", enabled |-> TRUE],
                               [url |-> "wss://b.io", enabled |-> FALSE] >>]

-----------------------------------------------------------------------------
\* no two entries of the relay list have the same url
NoTwoSameUrl(relays) ==
    \A i, j \in 1..Len(relays) : i # j => relays[i].url # relays[j].url

\* the step is an operation of the selector, not the page being loaded again
SelectorStep == ~(fresh' /\ ~fresh)

\* C19: a selector operation on a relay list in which no two entries have the
\* same url gives a list in which no two entries have the same url.
C19_NoDuplicateCreated ==
    [][(SelectorStep /\ NoTwoSameUrl(config.relays)) => NoTwoSameUrl(config'.relays)]_vars

\* C19 witness: from the stored relays a.io and b.io, b.io was enabled and a
\* third relay was added; the three urls differ
C19_Witness ==
    /\ Len(config.relays) = 3
    /\ config.relays[1].url = "wss://a.io"
    /\ config.relays[2] = [url |-> "wss://b.io", enabled |-> TRUE]
    /\ NoTwoSameUrl(config.relays)

\* C20: a selector operation keeps the theme, keeps every entry at its place
\* with its url, changes the enabled flag on entries of one url only, and adds
\* at most one entry, at the end, of that url.
C20_SelectorFrame ==
    [][SelectorStep =>
          LET old == config.relays
              new == config'.relays
          IN  /\ config'.theme = config.theme
              /\ Len(new) \in {Len(old), Len(old) + 1}
              /\ \A i \in 1..Len(old) : new[i].url = old[i].url
              /\ \E u \in {new[i].url : i \in 1..Len(new)} \cup {""} :
                    /\ \A i \in 1..Len(old) : new[i].enabled # old[i].enabled => old[i].url = u
                    /\ Len(new) = Len(old) + 1 => new[Len(new)].url = u]_vars

\* C20 witness: of the six default relays the first was disabled, then
\* wss://a.io was added at the end
C20_Witness ==
    /\ Len(config.relays) = 7
    /\ Urls(SubSeq(config.relays, 1, 6)) = Urls(defaultConfig.relays)
    /\ ~config.relays[1].enabled
    /\ \A i \in 2..6 : config.relays[i].enabled
    /\ config.relays[7] = [url |-> "wss://a.io", enabled |-> TRUE]
    /\ config.theme = "dark"

====
